---- MODULE Spec2Model ----
(***************************************************************************)
(* A model of linty's checks (src/linty/checks.py): the Check contract     *)
(* with its violation set, the concrete checks, and the comment scanner    *)
(* enumerateComments.                                                      *)
(*                                                                         *)
(* Strings are sequences of one-character strings.  Offsets are 0-based as *)
(* in Python; At and Slice translate them to TLA+'s 1-based sequences.     *)
(***************************************************************************)
EXTENDS Integers, Sequences, FiniteSets, TLC

VARIABLES
    fcontents,   \* enumerateComments: the text being scanned
    scanpos,     \* enumerateComments: offset where re.finditer resumes
    spans,       \* enumerateComments: the spans yielded so far
    exhausted,   \* enumerateComments: the generator has returned
    ctor,        \* the constructor call that made (or failed to make) the Check
    check,       \* the Check instance, NoCheck before construction
    violations,  \* Check.violations
    call,        \* the last process() call: its arguments and how it ended
    ncalls       \* number of process() calls made on the instance

vars == <<fcontents, scanpos, spans, exhausted, ctor, check, violations, call, ncalls>>
scanVars == <<fcontents, scanpos, spans, exhausted>>
checkVars == <<ctor, check, violations, call, ncalls>>

-----------------------------------------------------------------------------
(* Bounds *)

\* longest text handed to enumerateComments
MaxLen == 5
\* longest file handed to Check.process
MaxFileLen == 2
\* number of process() calls on one Check instance
MaxCalls == 2
\* longest run of spaces in a generated TODO comment
MaxTodoSpaces == 2

-----------------------------------------------------------------------------
(* Characters and Python string primitives *)

NL == "\n"
CR == "\r"
TAB == "\t"
BS == "\\"
DQ == "\""
SQ == "'"

\* Python's s[i]
At(s, i) == s[i + 1]

Min(a, b) == IF a < b THEN a ELSE b

\* Python's s[a:b] for 0 <= a
Slice(s, a, b) == SubSeq(s, a + 1, Min(b, Len(s)))

\* Python's s.startswith(p)
StartsWith(s, p) == Len(s) >= Len(p) /\ SubSeq(s, 1, Len(p)) = p

\* Python's s.endswith(p)
EndsWith(s, p) == Len(s) >= Len(p) /\ SubSeq(s, Len(s) - Len(p) + 1, Len(s)) = p

\* all sequences over alphabet A of length at most n
RECURSIVE SeqsUpTo(_, _)
SeqsUpTo(A, n) ==
    IF n = 0 THEN {<<>>}
    ELSE LET shorter == SeqsUpTo(A, n - 1)
         IN  shorter \cup {Append(s, c) : s \in shorter, c \in A}

\* offset one past the line that starts at offset i, terminator included
\* (str.splitlines breaks at \n, \r and \r\n)
RECURSIVE LineEnd(_, _)
LineEnd(s, i) ==
    IF i >= Len(s) THEN Len(s)
    ELSE IF At(s, i) = NL THEN i + 1
    ELSE IF At(s, i) = CR
         THEN (IF i + 1 < Len(s) /\ At(s, i + 1) = NL THEN i + 2 ELSE i + 1)
    ELSE LineEnd(s, i + 1)

\* a line without its terminator
StripTerminator(l) ==
    IF EndsWith(l, <<CR, NL>>) THEN SubSeq(l, 1, Len(l) - 2)
    ELSE IF EndsWith(l, <<NL>>) \/ EndsWith(l, <<CR>>) THEN SubSeq(l, 1, Len(l) - 1)
    ELSE l

RECURSIVE SplitFrom(_, _, _)
SplitFrom(s, i, keepends) ==
    IF i >= Len(s) THEN <<>>
    ELSE LET e == LineEnd(s, i)
             l == Slice(s, i, e)
         IN  <<IF keepends THEN l ELSE StripTerminator(l)>> \o SplitFrom(s, e, keepends)

\* Python's s.splitlines(keepends)
splitlines(s, keepends) == SplitFrom(s, 0, keepends)

\* Python's bisect.bisect(a, x) on a sorted list: the insertion point right
\* of any entries equal to x
bisect(a, x) == Cardinality({i \in DOMAIN a : a[i] <= x})

-----------------------------------------------------------------------------
(* enumerateComments *)

NoMatch == -1

\* line_starts = [0]; for line in slines: line_starts.append(line_starts[-1] + len(line))
RECURSIVE LineStartsFrom(_, _, _)
LineStartsFrom(slines, k, acc) ==
    IF k > Len(slines) THEN acc
    ELSE LineStartsFrom(slines, k + 1, Append(acc, acc[Len(acc)] + Len(slines[k])))

line_starts(s) == LineStartsFrom(splitlines(s, TRUE), 1, <<0>>)

\* //.*?$ under DOTALL | MULTILINE, tried at p where s[p:p+2] = '//': the lazy
\* body stops at the first offset that is the end of the text or before a \n
RECURSIVE LineCommentEnd(_, _)
LineCommentEnd(s, e) ==
    IF e >= Len(s) \/ At(s, e) = NL THEN e ELSE LineCommentEnd(s, e + 1)

\* /\*.*?\*/ tried at p where s[p:p+2] = '/*': the first */ at or after e
RECURSIVE BlockCommentEnd(_, _)
BlockCommentEnd(s, e) ==
    IF e + 1 >= Len(s) THEN NoMatch
    ELSE IF At(s, e) = "*" /\ At(s, e + 1) = "/" THEN e + 2
    ELSE BlockCommentEnd(s, e + 1)

\* StringEnd without the \\. alternative: a backslash escapes nothing
RECURSIVE StringEndNoEscape(_, _, _)
StringEndNoEscape(s, i, q) ==
    IF i >= Len(s) THEN NoMatch
    ELSE IF At(s, i) = q THEN i + 1
    ELSE StringEndNoEscape(s, i + 1, q)

\* q(?:\\.|[^\\q])*q with the opening quote consumed: i is the next offset
RECURSIVE StringEnd(_, _, _)
StringEnd(s, i, q) ==
    IF i >= Len(s) THEN NoMatch
    ELSE IF At(s, i) = q THEN i + 1
    ELSE IF At(s, i) = BS
         THEN (IF i + 1 < Len(s) THEN StringEnd(s, i + 2, q) ELSE NoMatch)
    ELSE StringEnd(s, i + 1, q)

\* the end offset of the pattern's match at offset p, or NoMatch
MatchEnd(s, p) ==
    IF p + 1 < Len(s) /\ At(s, p) = "/" /\ At(s, p + 1) = "/" THEN LineCommentEnd(s, p + 2)
    ELSE IF p + 1 < Len(s) /\ At(s, p) = "/" /\ At(s, p + 1) = "*" THEN BlockCommentEnd(s, p + 2)
    ELSE IF At(s, p) = SQ THEN StringEnd(s, p + 1, SQ)
    ELSE IF At(s, p) = DQ THEN StringEnd(s, p + 1, DQ)
    ELSE NoMatch

\* re.finditer: the leftmost offset >= pos where the pattern matches
RECURSIVE NextMatchStart(_, _)
NextMatchStart(s, pos) ==
    IF pos >= Len(s) THEN NoMatch
    ELSE IF MatchEnd(s, pos) # NoMatch THEN pos
    ELSE NextMatchStart(s, pos + 1)

SourceLocation(line, column, offset) ==
    [line |-> line, column |-> column, offset |-> offset]

\* the tuple yielded for the match s[mstart:mend]
CommentSpan(s, mstart, mend) ==
    LET starts == line_starts(s)
        line_start == bisect(starts, mstart)
        line_end == bisect(starts, mend - 1)
        column_start == mstart - starts[line_start]
        column_end == mend - starts[line_end]
    IN  [start |-> SourceLocation(line_start, column_start + 1, mstart),
         end |-> SourceLocation(line_end, column_end + 1, mend),
         text |-> Slice(s, mstart, mend)]

\* the generator yields its next span
NextSpan ==
    /\ ~exhausted
    /\ NextMatchStart(fcontents, scanpos) # NoMatch
    /\ LET mstart == NextMatchStart(fcontents, scanpos)
           mend == MatchEnd(fcontents, mstart)
       IN  /\ spans' = Append(spans, CommentSpan(fcontents, mstart, mend))
           /\ scanpos' = mend
    /\ UNCHANGED <<fcontents, exhausted>>
    /\ UNCHANGED checkVars

\* no further match: the generator returns
StopIteration ==
    /\ ~exhausted
    /\ NextMatchStart(fcontents, scanpos) = NoMatch
    /\ exhausted' = TRUE
    /\ UNCHANGED <<fcontents, scanpos, spans>>
    /\ UNCHANGED checkVars

\* all the spans of s, as a consumer that runs the generator to its end sees them
RECURSIVE CommentsFrom(_, _)
CommentsFrom(s, pos) ==
    LET mstart == NextMatchStart(s, pos)
    IN  IF mstart = NoMatch THEN <<>>
        ELSE <<CommentSpan(s, mstart, MatchEnd(s, mstart))>>
                 \o CommentsFrom(s, MatchEnd(s, mstart))

enumerateComments(s) == CommentsFrom(s, 0)

-----------------------------------------------------------------------------
(* The Check contract *)

\* lv.RuleViolation: a value, equal to another iff all five fields are equal
RuleViolation(rule_id, file, line, column, message) ==
    [rule_id |-> rule_id, file |-> file, line |-> line, column |-> column,
     message |-> message]

\* what processFiltered hands back to process: the violation set as it leaves
\* it, and whether an exception left it
Returned(vs) == [raised |-> FALSE, violations |-> vs]
Raised(vs) == [raised |-> TRUE, violations |-> vs]

\* Python's None, as a path and as a list of lines, and Python's truthiness
NoPath == "<None>"
NoLines == << <<"<None>">> >>
Truthy(path) == path # NoPath /\ path # ""
TruthyLines(lines) == lines # NoLines /\ lines # <<>>

\* before any constructor or process call
NoCheck == [kind |-> "NoCheck"]
NoCall == [outcome |-> "none"]
NoCtor == [cls |-> "none"]

\* a constructor that raised: the instance is never usable
ConfigError(what) == [kind |-> "ConfigError", error |-> what]

\* open(path, 'r') fails
NoFile == <<"<IOError>">>

-----------------------------------------------------------------------------
(* HeaderCheck and RegexpHeaderCheck *)

\* HeaderCheck.__init__ without its first test: a path given with lines wins
HeaderCheckInitNoBothTest(path, lines, content) ==
    IF ~Truthy(path) /\ ~TruthyLines(lines)
        THEN ConfigError("One of path and lines has to be given to HeaderCheck.")
    ELSE IF Truthy(path)
        THEN (IF content = NoFile THEN ConfigError("IOError")
              ELSE [kind |-> "HeaderCheck", path |-> path,
                    lines |-> splitlines(content, FALSE)])
    ELSE [kind |-> "HeaderCheck", path |-> path, lines |-> lines]

\* HeaderCheck.__init__; content is what open(path).read() gives, or NoFile
HeaderCheckInit(path, lines, content) ==
    IF Truthy(path) /\ TruthyLines(lines)
        THEN ConfigError("Cannot give both path and lines to HeaderCheck.")
    ELSE IF ~Truthy(path) /\ ~TruthyLines(lines)
        THEN ConfigError("One of path and lines has to be given to HeaderCheck.")
    ELSE IF Truthy(path)
        THEN (IF content = NoFile THEN ConfigError("IOError")
              ELSE [kind |-> "HeaderCheck", path |-> path,
                    lines |-> splitlines(content, FALSE)])
    ELSE [kind |-> "HeaderCheck", path |-> path, lines |-> lines]

\* re.compile on the patterns of the model: ordinary characters and '.', with
\* an unclosed '(' making the pattern invalid
Compiles(pattern) == \A i \in DOMAIN pattern : pattern[i] # "("

\* pattern.match(actual) != None: the pattern matches a prefix of actual, '.'
\* matching any character but \n
ReMatch(pattern, actual) ==
    /\ Len(actual) >= Len(pattern)
    /\ \A i \in DOMAIN pattern :
           IF pattern[i] = "." THEN actual[i] # NL ELSE actual[i] = pattern[i]

\* RegexpHeaderCheck.__init__
RegexpHeaderCheckInit(path, lines, content) ==
    LET base == HeaderCheckInit(path, lines, content)
    IN  IF base.kind = "ConfigError" THEN base
        ELSE IF \E i \in DOMAIN base.lines : ~Compiles(base.lines[i])
            THEN ConfigError("re.error")
        ELSE [base EXCEPT !.kind = "RegexpHeaderCheck"]

\* HeaderCheck.checkLine and its override RegexpHeaderCheck.checkLine
checkLine(chk, expected, actual) ==
    IF chk.kind = "RegexpHeaderCheck" THEN ReMatch(expected, actual)
    ELSE expected = actual

HeaderViolation(path, i) ==
    RuleViolation("style.header", path, i + 1, 1, "Invalid header!")

\* the loop without its break: every bad line is reported
RECURSIVE HeaderLoopNoBreak(_, _, _, _)
HeaderLoopNoBreak(chk, f, i, vs) ==
    IF i >= Len(chk.lines) THEN vs
    ELSE IF ~checkLine(chk, chk.lines[i + 1], f.flines[i + 1])
        THEN HeaderLoopNoBreak(chk, f, i + 1, vs \cup {HeaderViolation(f.path, i)})
    ELSE HeaderLoopNoBreak(chk, f, i + 1, vs)

\* for i in range(0, len(self.lines)): ... break
RECURSIVE HeaderLoop(_, _, _, _)
HeaderLoop(chk, f, i, vs) ==
    IF i >= Len(chk.lines) THEN vs
    ELSE IF ~checkLine(chk, chk.lines[i + 1], f.flines[i + 1])
        THEN vs \cup {HeaderViolation(f.path, i)}
    ELSE HeaderLoop(chk, f, i + 1, vs)

\* HeaderCheck.processFiltered
HeaderProcessFiltered(chk, f, vs) ==
    IF Len(f.flines) < Len(chk.lines) THEN Returned(vs)
    ELSE Returned(HeaderLoop(chk, f, 0, vs))

-----------------------------------------------------------------------------
(* OnlyUnixLineEndings, FileEndsWithNewlineCheck, NoTrailingWhitespaceCheck *)

RECURSIVE OnlyUnixLoop(_, _, _, _)
OnlyUnixLoop(path, lines, i, vs) ==
    IF i >= Len(lines) THEN vs
    ELSE LET line == lines[i + 1]
         IN  IF EndsWith(line, <<CR, NL>>)
                THEN OnlyUnixLoop(path, lines, i + 1,
                         vs \cup {RuleViolation("whitespace.lineending", path, i, Len(line),
                                                "Line  with CRLF (Windows line ending)")})
             ELSE OnlyUnixLoop(path, lines, i + 1, vs)

\* OnlyUnixLineEndings.processFiltered
OnlyUnixProcessFiltered(f, vs) ==
    Returned(OnlyUnixLoop(f.path, splitlines(f.fcontents, TRUE), 0, vs))

\* FileEndsWithNewlineCheck.__init__
FileEndsWithNewlineInit(args) ==
    [kind |-> "FileEndsWithNewlineCheck",
     allowed_newlines |-> IF args = <<>> THEN <<<<NL>>>> ELSE args]

\* FileEndsWithNewlineCheck.processFiltered; flines[-1] of an empty list
\* raises IndexError
FileEndsWithNewlineProcessFiltered(chk, f, vs) ==
    IF \E k \in DOMAIN chk.allowed_newlines : EndsWith(f.fcontents, chk.allowed_newlines[k])
        THEN Returned(vs)
    ELSE IF f.flines = <<>> THEN Raised(vs)
    ELSE Returned(vs \cup {RuleViolation("whitespace.lineending", f.path, Len(f.flines),
                                         Len(f.flines[Len(f.flines)]),
                                         "File did not end with valid newline char.")})

\* the characters str.rstrip() and \s take for whitespace
Whitespace == {" ", TAB, NL, CR}

\* Python's line.rstrip()
RECURSIVE rstrip(_)
rstrip(line) ==
    IF line # <<>> /\ line[Len(line)] \in Whitespace
        THEN rstrip(SubSeq(line, 1, Len(line) - 1))
    ELSE line

RECURSIVE NoTrailingLoop(_, _, _)
NoTrailingLoop(f, i, vs) ==
    IF i >= Len(f.flines) THEN vs
    ELSE LET line == f.flines[i + 1]
             rline == rstrip(line)
         IN  IF line # rline
                THEN NoTrailingLoop(f, i + 1,
                         vs \cup {RuleViolation("whitespace.trailing", f.path, i + 1,
                                                Len(rline) + 1,
                                                "Trailing whitespace is not allowed.")})
             ELSE NoTrailingLoop(f, i + 1, vs)

\* NoTrailingWhitespaceCheck.processFiltered
NoTrailingProcessFiltered(f, vs) == Returned(NoTrailingLoop(f, 0, vs))

-----------------------------------------------------------------------------
(* TodoCommentChecker *)

\* a group that took no part in the match (match.group(n) is None)
NoGroup == <<"<None>">>

TodoNoMatch == [matched |-> FALSE]

\* the offset of the first character at or after i that is not whitespace
RECURSIVE SkipWhitespace(_, _)
SkipWhitespace(c, i) ==
    IF i < Len(c) /\ At(c, i) \in Whitespace THEN SkipWhitespace(c, i + 1) ELSE i

\* re.match(r'^//(\s*)TODO(\(.+?\))?:?(\s|$)?', c): whether it matches and
\* its groups 1 to 3
TodoMatch(c) ==
    LET t == SkipWhitespace(c, 2)
        a == t + 4
        \* \(.+?\) at a: the first ')' that leaves the lazy body a character,
        \* the body holding no \n
        closes == {j \in (a + 2)..(Len(c) - 1) :
                       At(c, j) = ")" /\ \A d \in (a + 1)..(j - 1) : At(c, d) # NL}
        has2 == a < Len(c) /\ At(c, a) = "(" /\ closes # {}
        b == IF has2 THEN (CHOOSE j \in closes : \A d \in closes : j <= d) + 1 ELSE a
        e == IF b < Len(c) /\ At(c, b) = ":" THEN b + 1 ELSE b
    IN  IF ~StartsWith(c, <<"/", "/">>) \/ Slice(c, t, t + 4) # <<"T", "O", "D", "O">>
            THEN TodoNoMatch
        ELSE [matched |-> TRUE,
              g1 |-> Slice(c, 2, t),
              g2 |-> IF has2 THEN Slice(c, a, b) ELSE NoGroup,
              g3 |-> IF e < Len(c) /\ At(c, e) \in Whitespace THEN <<At(c, e)>>
                     ELSE IF e = Len(c) THEN <<>>
                     ELSE NoGroup]

MsgTodoSpace == "There should be exactly one space before TODO."
MsgTodoForm == "TODO comments should look like this: \"// TODO(username): Text\"."
MsgTodoColon == "\"TODO (username):\" should be followed by a space."

TodoViolation(path, cstart, message) ==
    RuleViolation("whitespace.todo", path, cstart.line, cstart.column, message)

\* the violations added for one yielded span
TodoCheckComment(path, span) ==
    LET m == TodoMatch(span.text)
    IN  IF ~StartsWith(span.text, <<"/", "/">>) \/ ~m.matched THEN {}
        ELSE (IF Len(m.g1) > 1
                THEN {TodoViolation(path, span.start, MsgTodoSpace)} ELSE {})
             \cup (IF m.g2 = NoGroup
                THEN {TodoViolation(path, span.start, MsgTodoForm)} ELSE {})
             \cup (IF m.g3 # <<" ">> /\ m.g3 # <<>>
                THEN {TodoViolation(path, span.start, MsgTodoColon)} ELSE {})

RECURSIVE TodoLoop(_, _, _, _)
TodoLoop(path, comments, k, vs) ==
    IF k > Len(comments) THEN vs
    ELSE TodoLoop(path, comments, k + 1, vs \cup TodoCheckComment(path, comments[k]))

\* TodoCommentChecker.processFiltered
TodoProcessFiltered(f, vs) ==
    Returned(TodoLoop(f.path, enumerateComments(f.fcontents), 1, vs))

-----------------------------------------------------------------------------
(* Construction and processing *)

HeaderKinds == {"HeaderCheck", "RegexpHeaderCheck"}
PlainKinds == {"OnlyUnixLineEndings", "NoTrailingWhitespaceCheck", "TodoCommentChecker"}
CheckKinds == HeaderKinds \cup PlainKinds \cup {"FileEndsWithNewlineCheck"}

\* the override of processFiltered that the instance's class selects
processFiltered(chk, f, vs) ==
    IF chk.kind \in HeaderKinds THEN HeaderProcessFiltered(chk, f, vs)
    ELSE IF chk.kind = "OnlyUnixLineEndings" THEN OnlyUnixProcessFiltered(f, vs)
    ELSE IF chk.kind = "FileEndsWithNewlineCheck"
        THEN FileEndsWithNewlineProcessFiltered(chk, f, vs)
    ELSE IF chk.kind = "NoTrailingWhitespaceCheck" THEN NoTrailingProcessFiltered(f, vs)
    ELSE TodoProcessFiltered(f, vs)

\* Check.process with the violation set emptied first
processWithReset(chk, f, vs) == processFiltered(chk, f, {})

\* Check.process: delegates to processFiltered, the violation set untouched
process(chk, f, vs) == processFiltered(chk, f, vs)

\* the driver's arguments for one file: its name, its text and its lines,
\* each line keeping its terminator
SourceFileArgs(path, text) ==
    [path |-> path, fcontents |-> text, flines |-> splitlines(text, TRUE)]

\* HeaderCheck(path, lines) or RegexpHeaderCheck(path, lines)
ConstructHeader(cls, path, lines, content) ==
    /\ check = NoCheck
    /\ LET read == IF Truthy(path) THEN content ELSE NoFile
       IN  /\ ctor' = [cls |-> cls, path |-> path, lines |-> lines, content |-> read]
           /\ check' = IF cls = "HeaderCheck" THEN HeaderCheckInit(path, lines, read)
                       ELSE RegexpHeaderCheckInit(path, lines, read)
    /\ UNCHANGED <<violations, call, ncalls>>
    /\ UNCHANGED scanVars

\* FileEndsWithNewlineCheck(*args)
ConstructFileEndsWithNewline(args) ==
    /\ check = NoCheck
    /\ ctor' = [cls |-> "FileEndsWithNewlineCheck", args |-> args]
    /\ check' = FileEndsWithNewlineInit(args)
    /\ UNCHANGED <<violations, call, ncalls>>
    /\ UNCHANGED scanVars

\* the checks that inherit Check.__init__
ConstructPlain(cls) ==
    /\ check = NoCheck
    /\ ctor' = [cls |-> cls]
    /\ check' = [kind |-> cls]
    /\ UNCHANGED <<violations, call, ncalls>>
    /\ UNCHANGED scanVars

\* check.process(path, fcontents, flines)
Process(f) ==
    /\ check.kind \in CheckKinds
    /\ ncalls < MaxCalls
    /\ LET r == process(check, f, violations)
       IN  /\ violations' = r.violations
           /\ call' = [file |-> f,
                       outcome |-> IF r.raised THEN "raised" ELSE "returned"]
    /\ ncalls' = ncalls + 1
    /\ UNCHANGED <<ctor, check>>
    /\ UNCHANGED scanVars

-----------------------------------------------------------------------------
(* Scanner inputs *)

ScanAlphabet == {"/", "*", DQ, SQ, BS, NL, "x"}

\* 'x = "//not a comment"; // real comment\n'
ScenarioText ==
    <<"x", " ", "=", " ", DQ, "/", "/", "n", "o", "t", " ", "a", " ", "c", "o", "m",
      "m", "e", "n", "t", DQ, ";", " ", "/", "/", " ", "r", "e", "a", "l", " ", "c",
      "o", "m", "m", "e", "n", "t", NL>>

\* "a\"//b" // c
EscapedQuoteText ==
    <<DQ, "a", BS, DQ, "/", "/", "b", DQ, " ", "/", "/", " ", "c">>

ScanTexts == SeqsUpTo(ScanAlphabet, MaxLen) \cup {ScenarioText, EscapedQuoteText}

InitScan ==
    /\ fcontents \in ScanTexts
    /\ scanpos = 0
    /\ spans = <<>>
    /\ exhausted = FALSE
    /\ ctor = NoCtor
    /\ check = NoCheck
    /\ violations = {}
    /\ call = NoCall
    /\ ncalls = 0

NextScan == NextSpan \/ StopIteration

SpecScan == InitScan /\ [][NextScan]_vars

-----------------------------------------------------------------------------
(* Check inputs *)

FileAlphabet == {"a", " ", CR, NL}
FileNames == {"a.cpp", "b.cpp"}

\* 'foo   \n', 'foo\n' and the two-line header 'a\n.\n'
FooSpacesLine == <<"f", "o", "o", " ", " ", " ", NL>>
FooLine == <<"f", "o", "o", NL>>
HeaderText == <<"a", NL, ".", NL>>

FileTexts == SeqsUpTo(FileAlphabet, MaxFileLen) \cup {FooSpacesLine, FooLine, HeaderText}

SourceFiles == {SourceFileArgs(n, t) : n \in FileNames, t \in FileTexts}

\* constructor arguments of the header checks
PathArgs == {NoPath, "", "header.txt"}
LinesArgs == {NoLines, <<>>, << <<"a">> >>, << <<"a">>, <<".">> >>, << <<"(">> >>}
\* what header.txt holds, when it can be opened
HeaderFileContents == {NoFile, <<>>, <<"a", NL>>, <<".", NL, "a", NL>>}

NewlineArgs == {<<>>, <<<<NL>>, <<CR, NL>>>>}

Init ==
    /\ fcontents = <<>>
    /\ scanpos = 0
    /\ spans = <<>>
    /\ exhausted = TRUE
    /\ ctor = NoCtor
    /\ check = NoCheck
    /\ violations = {}
    /\ call = NoCall
    /\ ncalls = 0

Next ==
    \/ \E cls \in HeaderKinds, path \in PathArgs, lines \in LinesArgs,
          content \in HeaderFileContents : ConstructHeader(cls, path, lines, content)
    \/ \E args \in NewlineArgs : ConstructFileEndsWithNewline(args)
    \/ \E cls \in PlainKinds : ConstructPlain(cls)
    \/ \E f \in SourceFiles : Process(f)

Spec == Init /\ [][Next]_vars

\* TODO comments: //, spaces, TODO, an attribution or none, a colon or none,
\* and a tail
Spaces(n) == [i \in 1..n |-> " "]

TodoComments ==
    {<<"/", "/">> \o Spaces(n) \o <<"T", "O", "D", "O">> \o attr \o colon \o tail :
        n \in 0..MaxTodoSpaces,
        attr \in {<<>>, <<"(", "x", ")">>, <<"(", ")">>},
        colon \in {<<>>, <<":">>},
        tail \in {Spaces(m) \o word : m \in 0..MaxTodoSpaces, word \in {<<>>, <<"y">>}}
                    \cup {<<TAB, "y">>}}

\* '//  TODO: fix this'
TodoFixThis ==
    <<"/", "/", " ", " ", "T", "O", "D", "O", ":", " ", "f", "i", "x", " ", "t", "h",
      "i", "s">>

\* '// TODO(x): y\n"//TODO" //TODO\n/* //TODO */'
TodoMixed ==
    <<"/", "/", " ", "T", "O", "D", "O", "(", "x", ")", ":", " ", "y", NL,
      DQ, "/", "/", "T", "O", "D", "O", DQ, " ", "/", "/", "T", "O", "D", "O", NL,
      "/", "*", " ", "/", "/", "T", "O", "D", "O", " ", "*", "/">>

TodoTexts ==
    {pre \o c : pre \in {<<>>, <<"y", NL, "y", " ">>}, c \in TodoComments}
        \cup {TodoFixThis, TodoMixed, ScenarioText}

TodoFiles == {SourceFileArgs("a.cpp", t) : t \in TodoTexts}

NextTodo ==
    \/ ConstructPlain("TodoCommentChecker")
    \/ \E f \in TodoFiles : Process(f)

SpecTodo == Init /\ [][NextTodo]_vars

-----------------------------------------------------------------------------
(* Properties of enumerateComments *)

\* the offset of the last character of span sp
LastOffset(sp) == sp.start.offset + Len(sp.text) - 1

\* C1: for every yielded span, full_text[start.offset : end.offset + 1] equals
\* the span's text
C1_SliceEqualsText ==
    \A k \in DOMAIN spans :
        Slice(fcontents, spans[k].start.offset, spans[k].end.offset + 1) = spans[k].text

\* 1-based line of offset off, counting the \n before it
ManualLine(s, off) == 1 + Cardinality({i \in 0..(off - 1) : At(s, i) = NL})

\* 1-based column of offset off: its distance from the start of its line
ManualColumn(s, off) ==
    LET nls == {i \in 0..(off - 1) : At(s, i) = NL}
        linestart == IF nls = {} THEN 0
                     ELSE 1 + CHOOSE i \in nls : \A j \in nls : j <= i
    IN  off - linestart + 1

\* C9: every span's start is the 1-based line and column of its first
\* character and its end the 1-based line and column of its last character,
\* as counted by hand in the original text
C9_ManualPositions ==
    \A k \in DOMAIN spans :
        LET sp == spans[k]
        IN  /\ sp.start.line = ManualLine(fcontents, sp.start.offset)
            /\ sp.start.column = ManualColumn(fcontents, sp.start.offset)
            /\ sp.end.line = ManualLine(fcontents, LastOffset(sp))
            /\ sp.end.column = ManualColumn(fcontents, LastOffset(sp))

\* The lexical structure of a text, stated without the pattern.  A token opens
\* where the text is neither inside a comment nor inside a literal; a literal
\* closes at the first quote of its kind that an even number of backslashes
\* precedes; nothing is a token from an unterminated opener onwards.
LeastOf(S) == CHOOSE e \in S : \A d \in S : e <= d

BackslashRun(s, open, j) ==
    Cardinality({b \in (open + 1)..(j - 1) : \A d \in b..(j - 1) : At(s, d) = BS})

LexStringClose(s, open) ==
    LET cands == {j \in (open + 1)..(Len(s) - 1) :
                      At(s, j) = At(s, open) /\ BackslashRun(s, open, j) % 2 = 0}
    IN  IF cands = {} THEN NoMatch ELSE LeastOf(cands) + 1

LexBlockClose(s, open) ==
    LET cands == {e \in (open + 2)..(Len(s) - 2) : At(s, e) = "*" /\ At(s, e + 1) = "/"}
    IN  IF cands = {} THEN NoMatch ELSE LeastOf(cands) + 2

LexLineClose(s, open) ==
    LeastOf({e \in (open + 2)..Len(s) : e = Len(s) \/ At(s, e) = NL})

LexToken(kind, from, to) == [kind |-> kind, from |-> from, to |-> to]

\* the tokens of s from offset i on, i being outside every token
RECURSIVE LexTokens(_, _)
LexTokens(s, i) ==
    IF i >= Len(s) THEN {}
    ELSE LET two == Slice(s, i, i + 2)
             close == IF two = <<"/", "/">> THEN LexLineClose(s, i)
                      ELSE IF two = <<"/", "*">> THEN LexBlockClose(s, i)
                      ELSE LexStringClose(s, i)
             kind == IF two = <<"/", "/">> THEN "line"
                     ELSE IF two = <<"/", "*">> THEN "block" ELSE "literal"
         IN  IF two # <<"/", "/">> /\ two # <<"/", "*">> /\ At(s, i) \notin {SQ, DQ}
                THEN LexTokens(s, i + 1)
             ELSE IF close = NoMatch THEN {}
             ELSE {LexToken(kind, i, close)} \cup LexTokens(s, close)

\* the terminated string literals of s that contain the substring //
LiteralsWithSlashes(s) ==
    {t \in LexTokens(s, 0) :
        /\ t.kind = "literal"
        /\ \E i \in (t.from + 1)..(t.to - 3) : Slice(s, i, i + 2) = <<"/", "/">>}

\* span k is exactly token t
SpanIs(k, t) ==
    /\ spans[k].start.offset = t.from
    /\ spans[k].text = Slice(fcontents, t.from, t.to)

\* C2: no span beginning with // starts inside a terminated string literal
\* that contains //; once the scan is over the literal has been yielded as one
\* span and every line comment after it as a later span, the spans lying in
\* left-to-right order without overlap; the scenario text yields exactly its
\* literal and then its line comment
C2_NoCommentInsideLiteral ==
    /\ \A t \in LiteralsWithSlashes(fcontents) :
        /\ \A k \in DOMAIN spans :
               ~ /\ StartsWith(spans[k].text, <<"/", "/">>)
                 /\ t.from < spans[k].start.offset
                 /\ spans[k].start.offset < t.to
        /\ exhausted =>
               \E k \in DOMAIN spans :
                   /\ SpanIs(k, t)
                   /\ \A c \in LexTokens(fcontents, 0) :
                          (c.kind = "line" /\ c.from >= t.to) =>
                              \E m \in DOMAIN spans : m > k /\ SpanIs(m, c)
    /\ \A k, m \in DOMAIN spans :
           k < m => LastOffset(spans[k]) < spans[m].start.offset
    /\ (exhausted /\ fcontents = ScenarioText) =>
           [k \in DOMAIN spans |-> spans[k].text]
               = <<Slice(ScenarioText, 4, 21), Slice(ScenarioText, 23, 38)>>

\* a finished scan of a text with a literal containing // and a line comment
\* after it
C2_Witness ==
    /\ exhausted
    /\ \E t \in LiteralsWithSlashes(fcontents) :
           \E c \in LexTokens(fcontents, 0) : c.kind = "line" /\ c.from >= t.to

-----------------------------------------------------------------------------
(* Properties of the checks *)

\* the lines of the expected header that the file's lines do not satisfy
DivergentLines(chk, f) ==
    {i \in 0..(Len(chk.lines) - 1) : ~checkLine(chk, chk.lines[i + 1], f.flines[i + 1])}

\* C3: one call of a header check with an expected header of K lines leaves
\* the violation set unchanged if the file has fewer than K lines or its first
\* K lines all match, and otherwise adds exactly the one violation at line
\* j + 1, column 1, j being the first divergent line
C3_HeaderOneViolation ==
    [][(check.kind \in HeaderKinds /\ ncalls' = ncalls + 1) =>
          LET f == call'.file
          IN  /\ call'.outcome = "returned"
              /\ IF Len(f.flines) < Len(check.lines) \/ DivergentLines(check, f) = {}
                    THEN violations' = violations
                 ELSE violations' = violations \cup
                          {[rule_id |-> "style.header", file |-> f.path,
                            line |-> LeastOf(DivergentLines(check, f)) + 1, column |-> 1,
                            message |-> "Invalid header!"]}]_vars

\* a header check has processed a file with two divergent lines and holds the
\* violation of the first
C3_Witness ==
    /\ check.kind \in HeaderKinds
    /\ call.outcome = "returned"
    /\ Len(call.file.flines) >= Len(check.lines)
    /\ Cardinality(DivergentLines(check, call.file)) >= 2
    /\ HeaderViolation(call.file.path, LeastOf(DivergentLines(check, call.file)))
           \in violations

\* the sub-rules of a TODO comment c, read off its text
TodoGap(c) == SkipWhitespace(c, 2) - 2
IsTodoComment(c) ==
    /\ StartsWith(c, <<"/", "/">>)
    /\ Slice(c, TodoGap(c) + 2, TodoGap(c) + 6) = <<"T", "O", "D", "O">>
TodoAttributionEnd(c) ==
    LET a == TodoGap(c) + 6
        closes == {j \in (a + 2)..(Len(c) - 1) : At(c, j) = ")"}
    IN  IF a < Len(c) /\ At(c, a) = "(" /\ closes # {} THEN LeastOf(closes) + 1 ELSE a
TodoGapFails(c) == TodoGap(c) > 1
TodoAttributionFails(c) == TodoAttributionEnd(c) = TodoGap(c) + 6
TodoColonFails(c) ==
    LET b == TodoAttributionEnd(c)
    IN  /\ b < Len(c) /\ At(c, b) = ":"
        /\ ~ \/ b + 1 = Len(c)
             \/ /\ At(c, b + 1) = " "
                /\ (b + 2 = Len(c) \/ At(c, b + 2) # " ")

\* the violations the three sub-rules call for in text s of file path
TodoExpected(path, s) ==
    UNION {LET c == Slice(s, t.from, t.to)
               at(msg) == [rule_id |-> "whitespace.todo", file |-> path,
                           line |-> ManualLine(s, t.from),
                           column |-> ManualColumn(s, t.from), message |-> msg]
           IN  IF ~IsTodoComment(c) THEN {}
               ELSE (IF TodoGapFails(c) THEN {at(MsgTodoSpace)} ELSE {})
                    \cup (IF TodoAttributionFails(c) THEN {at(MsgTodoForm)} ELSE {})
                    \cup (IF TodoColonFails(c) THEN {at(MsgTodoColon)} ELSE {})
           : t \in {u \in LexTokens(s, 0) : u.kind = "line"}}

\* C4: for every TODO comment the checker adds exactly one violation per
\* failing sub-rule (more than one space before TODO; no attribution; a colon
\* not followed by exactly one space or the end) and none for a passing one
C4_TodoSubRules ==
    (check.kind = "TodoCommentChecker" /\ ncalls = 1 /\ call.outcome = "returned") =>
        violations = TodoExpected(call.file.path, call.file.fcontents)

\* the lines of f with blanks before their terminator, as violations
TrailingExpected(f) ==
    {[rule_id |-> "whitespace.trailing", file |-> f.path, line |-> i,
      column |-> Len(rstrip(StripTerminator(f.flines[i]))) + 1,
      message |-> "Trailing whitespace is not allowed."] :
        i \in {k \in DOMAIN f.flines :
                  LET body == StripTerminator(f.flines[k])
                  IN  body # <<>> /\ body[Len(body)] \in {" ", TAB}}}

\* C5: NoTrailingWhitespaceCheck, given lines that keep their terminator, adds
\* a violation for a line iff the line has whitespace before its terminator,
\* at the column after the line's stripped content
C5_TrailingWhitespace ==
    (check.kind = "NoTrailingWhitespaceCheck" /\ ncalls = 1 /\ call.outcome = "returned") =>
        violations = TrailingExpected(call.file)

\* C6: process returns normally for every constructed check and every file
C6_ProcessNeverRaises == call.outcome # "raised"

\* how many of path and lines the constructor call was given, by a test
Supplied(given(_, _)) == IF given(ctor.path, ctor.lines) THEN 1 ELSE 0
GivenPath(path, lines) == path # NoPath
GivenLines(path, lines) == lines # NoLines
NonEmptyPath(path, lines) == Truthy(path)
NonEmptyLines(path, lines) == TruthyLines(lines)

\* C7 as stated: constructing a header check fails iff neither or both of
\* path and lines are supplied, and process never fails later
C7_FailFastSupplied ==
    ctor.cls \in HeaderKinds =>
        /\ (Supplied(GivenPath) + Supplied(GivenLines) # 1) => check.kind = "ConfigError"
        /\ (Supplied(GivenPath) + Supplied(GivenLines) = 1) => check.kind = ctor.cls
        /\ call.outcome # "raised"

\* the expected lines a successful construction ends with
CtorLines == IF Truthy(ctor.path) THEN splitlines(ctor.content, FALSE) ELSE ctor.lines

\* C7 amended: construction fails with a configuration error if neither or
\* both of path and lines are non-empty; it succeeds when exactly one is
\* non-empty, the header file can be read and, for RegexpHeaderCheck, every
\* line compiles; a failed construction leaves no check to call, and process
\* on a constructed header check never fails
C7_FailFastNonEmpty ==
    ctor.cls \in HeaderKinds =>
        /\ (Supplied(NonEmptyPath) + Supplied(NonEmptyLines) # 1) =>
               /\ check.kind = "ConfigError"
               /\ check.error \notin {"IOError", "re.error"}
        /\ ( /\ Supplied(NonEmptyPath) + Supplied(NonEmptyLines) = 1
             /\ Truthy(ctor.path) => ctor.content # NoFile
             /\ ctor.cls = "RegexpHeaderCheck" =>
                    (\A i \in DOMAIN CtorLines : Compiles(CtorLines[i])) ) =>
               /\ check.kind = ctor.cls
               /\ check.lines = CtorLines
        /\ check.kind = "ConfigError" => ncalls = 0
        /\ call.outcome # "raised"

\* a header check given both a path and lines was refused at construction
C7_Witness ==
    /\ ctor.cls \in HeaderKinds
    /\ Truthy(ctor.path) /\ TruthyLines(ctor.lines)
    /\ check.kind = "ConfigError"

\* the infractions of file f alone: what a fresh instance of chk's class finds
Found(chk, f) == processFiltered(chk, f, {}).violations

\* C8 as stated: after each call that returns, the violation set is exactly
\* the set of infractions found in the file of that call
C8_ExactlyThisFile ==
    call.outcome = "returned" => violations = Found(check, call.file)

\* C8 amended: after each call that returns, the violation set is the set
\* before the call together with the infractions found in the file of that
\* call
C8_Accumulates ==
    [][(ncalls' = ncalls + 1 /\ call'.outcome = "returned") =>
          violations' = violations \cup Found(check, call'.file)]_vars

\* a second call has returned and the set holds more than its file's infractions
C8_Witness ==
    /\ ncalls = 2
    /\ call.outcome = "returned"
    /\ Found(check, call.file) # {}
    /\ violations # Found(check, call.file)

\* C10: every violation has line >= 1 and column >= 1, and a violation of
\* OnlyUnixLineEndings names the line that ends with CRLF
C10_OneBasedPositions ==
    /\ \A v \in violations : v.line >= 1 /\ v.column >= 1
    /\ (check.kind = "OnlyUnixLineEndings" /\ ncalls = 1) =>
           \A v \in violations :
               /\ v.line \in DOMAIN call.file.flines
               /\ EndsWith(call.file.flines[v.line], <<CR, NL>>)

====
